---- MODULE Spec2Model ----
(***************************************************************************)
(* aws-sso-env: one run of main() in src/main.rs.                          *)
(*                                                                         *)
(* The run is the pipeline                                                 *)
(*   get_sso_profile -> load_cached_token -> CachedSsoToken::expires_at    *)
(*   -> expiry comparison -> fetch_sso_credentials -> four println!        *)
(* Everything the run reads from outside (the profile files, the cache     *)
(* directory and file, the clock, the remote response) is drawn when the   *)
(* code reads it and recorded in the state.                                *)
(*                                                                         *)
(* Option<T> is a sequence: <<>> is None, <<x>> is Some(x).                *)
(* A string holding an RFC3339 timestamp is <<local, designator>>: the     *)
(* local date-time (in clock ticks) and the offset designator as written;  *)
(* a string that is no timestamp is a one-element tuple.                   *)
(***************************************************************************)
EXTENDS Integers, Sequences, FiniteSets, TLC

\* Clock ticks run 0..MaxTime; one tick stands for the hour an offset of
\* "+01:00" shifts by.
MaxTime == 2

None == <<>>
Some(x) == <<x>>
IsSome(o) == o # <<>>
Unwrap(o) == o[1]

\* ---------------------------------------------------------------- inputs

ProfileNames == {"dev", "prod"}

\* The five properties get_sso_profile reads, in the order the struct
\* expression evaluates them.
Attrs == <<"region", "sso_account_id", "sso_region", "sso_role_name", "sso_start_url">>
AttrSet == {Attrs[i] : i \in 1..Len(Attrs)}

AttrValue(a) ==
    CASE a = "region" -> "eu-west-1"
      [] a = "sso_account_id" -> "123456789012"
      [] a = "sso_region" -> "us-east-1"
      [] a = "sso_role_name" -> "Admin"
      [] a = "sso_start_url" -> "https://example.awsapps.com/start"

\* A profile of the configuration: each property set or not.
Profiles == {[a \in AttrSet |-> IF a \in present THEN Some(AttrValue(a)) ELSE None] :
                present \in SUBSET AttrSet}

\* What aws_config::profile::load yields: a failure, or a profile set in which
\* the names of `names` are defined (with the properties `p`).
ProfileSets ==
    {[loaded |-> FALSE, get |-> [n \in ProfileNames |-> None]]}
    \cup {[loaded |-> TRUE, get |-> [n \in ProfileNames |-> IF n \in names THEN Some(p) ELSE None]] :
            names \in SUBSET ProfileNames, p \in Profiles}

\* Offset designators of an RFC3339 string and the offset each denotes.
Designators == {"Z", "+00:00", "+01:00", "-01:00"}
OffsetOf(d) == CASE d = "Z" -> 0 [] d = "+00:00" -> 0 [] d = "+01:00" -> 1 [] d = "-01:00" -> 0 - 1

\* The strings an expiresAt field may hold.
TimestampStrings == {<<l, d>> : l \in 0..MaxTime, d \in Designators}
ExpiresAtStrings == TimestampStrings \cup {<<"not-a-date">>}

\* JSON keys of the cache file.
TokenKeys == {"accessToken", "expiresAt", "region", "startUrl"}

\* A JSON object of the cache file: the keys it has, and its expiresAt string.
JsonObjects == {[keys |-> k, expiresAt |-> e] : k \in SUBSET TokenKeys, e \in ExpiresAtStrings}

\* The cache file as the run finds it: bytes that are not UTF-8, text that is
\* not JSON, or a JSON object.
FileContents ==
    {[kind |-> "not-utf8", json |-> None], [kind |-> "not-json", json |-> None]}
    \cup {[kind |-> "json", json |-> Some(j)] : j \in JsonObjects}

\* The file system under the home directory: no home directory, no cache
\* directory, no cache file, or a cache file.
CacheStates ==
    {[home |-> FALSE, dir |-> FALSE, file |-> None],
     [home |-> TRUE, dir |-> FALSE, file |-> None],
     [home |-> TRUE, dir |-> TRUE, file |-> None]}
    \cup {[home |-> TRUE, dir |-> TRUE, file |-> Some(c)] : c \in FileContents}

\* Option<String> fields of RoleCredentials.
OptField(v) == {None, Some(v)}

RoleCredentials ==
    {[access_key_id |-> a, secret_access_key |-> s, session_token |-> t, expiration |-> e] :
        a \in OptField("AKIAEXAMPLE"), s \in OptField("wJalrSECRET"),
        t \in OptField("FwoGSESSION"), e \in 0..MaxTime}

\* What send().await yields: an SdkError, or an output with or without
\* role_credentials.
Responses ==
    {[ok |-> FALSE, role_credentials |-> None], [ok |-> TRUE, role_credentials |-> None]}
    \cup {[ok |-> TRUE, role_credentials |-> Some(rc)] : rc \in RoleCredentials}

\* ------------------------------------------------------- pure functions

\* anyhow::Result<T>
Ok(v) == [ok |-> TRUE, val |-> Some(v), err |-> <<>>]
Err(e) == [ok |-> FALSE, val |-> None, err |-> e]

MissingProperty(a) == <<"profile must have property set", a>>

\* get_sso_profile as it would be with region and sso_region taken from each
\* other's property and the properties checked in another order.
GetSsoProfileSwapped(profiles, name) ==
    IF ~profiles.loaded THEN Err(<<"unable to get profiles">>)
    ELSE IF IsSome(profiles.get[name]) THEN
        LET profile == Unwrap(profiles.get[name]) IN
        IF profile["sso_region"] = None THEN Err(MissingProperty("sso_region"))
        ELSE IF profile["sso_account_id"] = None THEN Err(MissingProperty("sso_account_id"))
        ELSE IF profile["region"] = None THEN Err(MissingProperty("region"))
        ELSE IF profile["sso_role_name"] = None THEN Err(MissingProperty("sso_role_name"))
        ELSE IF profile["sso_start_url"] = None THEN Err(MissingProperty("sso_start_url"))
        ELSE Ok([profile_name |-> name,
                 region |-> Unwrap(profile["sso_region"]),
                 sso_account_id |-> Unwrap(profile["sso_account_id"]),
                 sso_region |-> Unwrap(profile["region"]),
                 sso_role_name |-> Unwrap(profile["sso_role_name"]),
                 sso_start_url |-> Unwrap(profile["sso_start_url"])])
    ELSE Err(<<"profile not found", name>>)

\* get_sso_profile: the profile set is loaded, the named profile looked up and
\* its five properties extracted in the order of the struct expression, the
\* first absent one ending the function.
GetSsoProfile(profiles, name) ==
    IF ~profiles.loaded THEN Err(<<"unable to get profiles">>)
    ELSE IF IsSome(profiles.get[name]) THEN
        LET profile == Unwrap(profiles.get[name]) IN
        IF profile["region"] = None THEN Err(MissingProperty("region"))
        ELSE IF profile["sso_account_id"] = None THEN Err(MissingProperty("sso_account_id"))
        ELSE IF profile["sso_region"] = None THEN Err(MissingProperty("sso_region"))
        ELSE IF profile["sso_role_name"] = None THEN Err(MissingProperty("sso_role_name"))
        ELSE IF profile["sso_start_url"] = None THEN Err(MissingProperty("sso_start_url"))
        ELSE Ok([profile_name |-> name,
                 region |-> Unwrap(profile["region"]),
                 sso_account_id |-> Unwrap(profile["sso_account_id"]),
                 sso_region |-> Unwrap(profile["sso_region"]),
                 sso_role_name |-> Unwrap(profile["sso_role_name"]),
                 sso_start_url |-> Unwrap(profile["sso_start_url"])])
    ELSE Err(<<"profile not found", name>>)

\* serde_json::from_str::<CachedSsoToken> with rename_all = "camelCase": the
\* text must be a JSON object holding the four keys.
Deserialize(content) ==
    IF content.kind = "json" /\ TokenKeys \subseteq Unwrap(content.json).keys
    THEN Some([access_token |-> "eyJTOKEN",
               expires_at |-> Unwrap(content.json).expiresAt,
               region |-> "us-east-1",
               start_url |-> "https://example.awsapps.com/start"])
    ELSE None

\* load_cached_token: the token it returns, what it logs, and the branch taken.
LoadCachedToken(sso_profile, fs) ==
    IF ~fs.home THEN
        [panic |-> TRUE, token |-> None, log |-> <<>>, status |-> "Panic"]
    ELSE IF ~fs.dir THEN
        [panic |-> FALSE, token |-> None,
         log |-> << <<"debug", "SSO credentials cache directory does not exist">> >>,
         status |-> "AbsentDir"]
    ELSE IF fs.file = None THEN
        [panic |-> FALSE, token |-> None,
         log |-> << <<"debug", "Cache file for profile does not exist", sso_profile.profile_name>> >>,
         status |-> "AbsentFile"]
    ELSE IF Unwrap(fs.file).kind = "not-utf8" THEN
        \* read_to_string fails; .ok() discards the error
        [panic |-> FALSE, token |-> None, log |-> <<>>, status |-> "Unreadable"]
    ELSE IF Deserialize(Unwrap(fs.file)) = None THEN
        [panic |-> FALSE, token |-> None,
         log |-> << <<"error", "Unable to deserialize cached SSO token">> >>,
         status |-> "Malformed"]
    ELSE
        [panic |-> FALSE, token |-> Deserialize(Unwrap(fs.file)), log |-> <<>>, status |-> "Valid"]

\* ParseRfc3339 as it would be if an unparsable string fell back to the epoch.
ParseRfc3339OrEpoch(s) ==
    IF Len(s) = 2 THEN Ok([utc |-> s[1] - OffsetOf(s[2]), offset |-> OffsetOf(s[2])])
    ELSE Ok([utc |-> 0, offset |-> 0])

\* OffsetDateTime::parse(s, &Rfc3339): the instant is the local date-time less
\* the offset; the offset is kept.
ParseRfc3339(s) ==
    IF Len(s) = 2 THEN Ok([utc |-> s[1] - OffsetOf(s[2]), offset |-> OffsetOf(s[2])])
    ELSE Err(<<"unable to parse date-time">>)

\* CachedSsoToken::expires_at
ExpiresAt(token) == ParseRfc3339(token.expires_at)

\* OffsetDateTime::format(&Rfc3339): the local date-time at the value's offset;
\* a zero offset is written "Z".  It cannot fail on a value ParseRfc3339 made.
FormatRfc3339(dt) ==
    <<dt.utc + dt.offset,
      IF dt.offset = 0 THEN "Z" ELSE IF dt.offset > 0 THEN "+01:00" ELSE "-01:00">>

\* OffsetDateTime::now_utc() at clock reading t
NowUtc(t) == [utc |-> t, offset |-> 0]

\* The comparison main makes: OffsetDateTime orders by instant.
IsExpired(now, expiry) == now.utc > expiry.utc

\* OffsetDateTime::from_unix_timestamp_nanos on an i64: every i64 count of
\* nanoseconds (years 1677 to 2262) is within OffsetDateTime's range.
FromUnixTimestampNanos(n) ==
    IF n \in Int THEN Ok([utc |-> n, offset |-> 0])
    ELSE Err(<<"unable to parse expiration date from role credentials">>)

\* The GetRoleCredentials request fetch_sso_credentials builds.
RoleCredentialsRequest(profile, token) ==
    [region |-> token.region,
     account_id |-> profile.sso_account_id,
     role_name |-> profile.sso_role_name,
     access_token |-> token.access_token]

\* fetch_sso_credentials as it would be if an absent secret access key were
\* replaced by an empty string.
FetchSsoCredentialsDefaulting(profile, token, response) ==
    IF ~response.ok THEN Err(<<"service error">>)
    ELSE IF response.role_credentials = None
         THEN Err(<<"response did not contain", "credentials">>)
    ELSE
        LET rc == Unwrap(response.role_credentials) IN
        IF rc.access_key_id = None THEN Err(<<"response did not contain", "access key id">>)
        ELSE IF rc.session_token = None THEN Err(<<"response did not contain", "session token">>)
        ELSE Ok([access_key_id |-> Unwrap(rc.access_key_id),
                 secret_access_key |-> IF rc.secret_access_key = None THEN ""
                                       ELSE Unwrap(rc.secret_access_key),
                 session_token |-> Unwrap(rc.session_token),
                 expires_at |-> [utc |-> rc.expiration, offset |-> 0]])

\* fetch_sso_credentials, once the request has been answered by `response`:
\* each field is checked in the order of the code, the first absent one ending
\* the function.
FetchSsoCredentials(profile, token, response) ==
    IF ~response.ok THEN Err(<<"service error">>)
    ELSE IF response.role_credentials = None
         THEN Err(<<"response did not contain", "credentials">>)
    ELSE
        LET rc == Unwrap(response.role_credentials) IN
        IF rc.access_key_id = None THEN Err(<<"response did not contain", "access key id">>)
        ELSE IF rc.secret_access_key = None
             THEN Err(<<"response did not contain", "secret access key">>)
        ELSE IF rc.session_token = None THEN Err(<<"response did not contain", "session token">>)
        ELSE IF ~FromUnixTimestampNanos(rc.expiration).ok
             THEN Err(<<"unable to parse", "expiration">>)
        ELSE Ok([access_key_id |-> Unwrap(rc.access_key_id),
                 secret_access_key |-> Unwrap(rc.secret_access_key),
                 session_token |-> Unwrap(rc.session_token),
                 expires_at |-> Unwrap(FromUnixTimestampNanos(rc.expiration).val)])

\* The println! of main as they would be with two export lines exchanged.
OutputLinesMisordered(enc, creds) ==
    << <<"# expires at ", enc>>,
       <<"export AWS_SECRET_ACCESS_KEY=", creds.secret_access_key>>,
       <<"export AWS_ACCESS_KEY_ID=", creds.access_key_id>>,
       <<"export AWS_SESSION_TOKEN=", creds.session_token>> >>

\* The println! of main as they would be if the comment line showed the
\* expiry of the fetched credentials.
OutputLinesCredentialsExpiry(enc, creds) ==
    << <<"# expires at ", FormatRfc3339(creds.expires_at)>>,
       <<"export AWS_ACCESS_KEY_ID=", creds.access_key_id>>,
       <<"export AWS_SECRET_ACCESS_KEY=", creds.secret_access_key>>,
       <<"export AWS_SESSION_TOKEN=", creds.session_token>> >>

\* The four println! of main, in order.
OutputLines(enc, creds) ==
    << <<"# expires at ", enc>>,
       <<"export AWS_ACCESS_KEY_ID=", creds.access_key_id>>,
       <<"export AWS_SECRET_ACCESS_KEY=", creds.secret_access_key>>,
       <<"export AWS_SESSION_TOKEN=", creds.session_token>> >>

\* Process exit status of `fn main() -> Result<()>`.
ExitSuccess == 0
ExitFailure == 1
ExitPanic == 101
ExitCodeAlwaysSuccess(res) ==
    CASE res = "Ok" -> ExitSuccess
      [] res = "Err" -> ExitSuccess
      [] res = "Panic" -> ExitPanic
ExitCode(res) ==
    CASE res = "Ok" -> ExitSuccess
      [] res = "Err" -> ExitFailure
      [] res = "Panic" -> ExitPanic

\* The values holding secrets.
Objects == {"CachedSsoToken", "SsoCredentials"}

\* What happens to a value's memory when it goes out of scope.  Both structs
\* derive Zeroize without #[zeroize(drop)] and nothing calls zeroize(): the
\* memory is released as it is.
Drop(m) == IF m = "live" THEN "freed" ELSE m

\* ------------------------------------------------------------------ state

VARIABLES
    pc,                \* where main is: "start", "load", "parse", "check",
                       \* "fetch", "print", "return", "done"
    profile_name,      \* args.profile_name
    profiles,          \* Option: the profile set aws_config::profile::load gave
    sso_profile,       \* Option<SsoProfile>
    cache,             \* Option: the file system load_cached_token found
    cached_sso_token,  \* Option<CachedSsoToken>
    expires_at,        \* Option<OffsetDateTime>: the parsed token expiry
    encoded,           \* Option<String>: expires_at formatted as RFC3339
    now,               \* Option<OffsetDateTime>: the clock as read at the check
    requests,          \* the GetRoleCredentials requests sent, in order
    response,          \* Option: what the request was answered with
    credentials,       \* Option<SsoCredentials>
    stdout,            \* the lines written to standard output
    log,               \* the records written to the log
    outcome,           \* the branch on which main stopped, "Running" before
    result,            \* what main returns: "Ok", "Err", "Panic"; "" before
    error,             \* the error main returns, <<>> if none
    exit,              \* Option: the process exit status
    heap               \* per secret value: "none", "live", "freed" (released
                       \* as it was), "zeroized" (overwritten, then released)

vars == <<pc, profile_name, profiles, sso_profile, cache, cached_sso_token, expires_at,
          encoded, now, requests, response, credentials, stdout, log, outcome, result,
          error, exit, heap>>

Init ==
    /\ pc = "start"
    /\ profile_name \in ProfileNames
    /\ profiles = None
    /\ sso_profile = None
    /\ cache = None
    /\ cached_sso_token = None
    /\ expires_at = None
    /\ encoded = None
    /\ now = None
    /\ requests = <<>>
    /\ response = None
    /\ credentials = None
    /\ stdout = <<>>
    /\ log = <<>>
    /\ outcome = "Running"
    /\ result = ""
    /\ error = <<>>
    /\ exit = None
    /\ heap = [o \in Objects |-> "none"]

\* main leaves through `return Ok(())`, the final `Ok(())`, a `?` or a panic.
Leave(res, e, how) ==
    /\ pc' = "return"
    /\ result' = res
    /\ error' = e
    /\ outcome' = how

Continue(next) ==
    /\ pc' = next
    /\ UNCHANGED <<result, error, outcome>>

\* The `?` after fetch_sso_credentials as it would be if a failed request
\* were sent again.
FetchFailedRetry(e) ==
    IF Len(requests) < 2 THEN Continue("fetch") ELSE Leave("Err", e, "FetchError")

\* The `?` after fetch_sso_credentials: the error is returned from main.
FetchFailed(e) == Leave("Err", e, "FetchError")

\* The name under which a failure of get_sso_profile ends the run.
ProfileFailure(e) ==
    CASE e[1] = "unable to get profiles" -> "ProfileLoadError"
      [] e[1] = "profile not found" -> "ProfileNotFound"
      [] e[1] = "profile must have property set" -> "IncompleteProfile"

\* main: `get_sso_profile(profile_name).await?` and the debug record after it.
ResolveProfile ==
    /\ pc = "start"
    /\ \E ps \in ProfileSets :
        LET r == GetSsoProfile(ps, profile_name) IN
        /\ profiles' = Some(ps)
        /\ IF r.ok
           THEN /\ sso_profile' = r.val
                /\ log' = Append(log, <<"debug", "Found SSO profile">>)
                /\ Continue("load")
           ELSE /\ UNCHANGED <<sso_profile, log>>
                /\ Leave("Err", r.err, ProfileFailure(r.err))
    /\ UNCHANGED <<profile_name, cache, cached_sso_token, expires_at, encoded, now, requests,
                   response, credentials, stdout, exit, heap>>

\* main: `if let Some(cached_sso_token) = load_cached_token(..).await` and the
\* debug record of the Some branch; with None, main falls through to Ok(()).
LoadToken ==
    /\ pc = "load"
    /\ \E fs \in CacheStates :
        LET r == LoadCachedToken(Unwrap(sso_profile), fs) IN
        /\ cache' = Some(fs)
        /\ cached_sso_token' = r.token
        /\ IF r.panic
           THEN /\ log' = log
                /\ heap' = heap
                /\ Leave("Panic", <<"unable to get the current user's home dir">>, r.status)
           ELSE IF r.token = None
           THEN /\ log' = log \o r.log
                /\ heap' = heap
                /\ Leave("Ok", <<>>, r.status)
           ELSE /\ log' = (log \o r.log) \o << <<"debug", "Loaded cached SSO token.">> >>
                /\ heap' = [heap EXCEPT !["CachedSsoToken"] = "live"]
                /\ Continue("parse")
    /\ UNCHANGED <<profile_name, profiles, sso_profile, expires_at, encoded, now, requests,
                   response, credentials, stdout, exit>>

\* main: `if let Ok(expires_at) = cached_sso_token.expires_at()` and the
\* formatting of the parsed value; with Err, main falls through to Ok(()).
ParseExpiry ==
    /\ pc = "parse"
    /\ LET r == ExpiresAt(Unwrap(cached_sso_token)) IN
        IF r.ok
        THEN /\ expires_at' = r.val
             /\ encoded' = Some(FormatRfc3339(Unwrap(r.val)))
             /\ Continue("check")
        ELSE /\ UNCHANGED <<expires_at, encoded>>
             /\ Leave("Ok", <<>>, "BadTimestamp")
    /\ UNCHANGED <<profile_name, profiles, sso_profile, cache, cached_sso_token, now, requests,
                   response, credentials, stdout, log, exit, heap>>

\* main: the comparison of the clock with expires_at, and the records of
\* either branch.
CheckExpiry ==
    /\ pc = "check"
    /\ \E t \in 0..MaxTime :
        /\ now' = Some(NowUtc(t))
        /\ IF IsExpired(NowUtc(t), Unwrap(expires_at))
           THEN /\ log' = log \o << <<"error", "Cached SSO token is expired as of", Unwrap(encoded)>>,
                                    <<"info", "Run 'aws sso login' to refresh credentials.", profile_name>> >>
                /\ Leave("Ok", <<>>, "Expired")
           ELSE /\ log' = Append(log, <<"debug", "Cached SSO token is still valid, expires at",
                                        Unwrap(encoded)>>)
                /\ Continue("fetch")
    /\ UNCHANGED <<profile_name, profiles, sso_profile, cache, cached_sso_token, expires_at,
                   encoded, requests, response, credentials, stdout, exit, heap>>

\* main: `fetch_sso_credentials(..).await.map_err(..)?` and the info record
\* after it.  The request is sent once and answered once.
FetchCredentials ==
    /\ pc = "fetch"
    /\ requests' = Append(requests,
                          RoleCredentialsRequest(Unwrap(sso_profile), Unwrap(cached_sso_token)))
    /\ \E resp \in Responses :
        LET r == FetchSsoCredentials(Unwrap(sso_profile), Unwrap(cached_sso_token), resp) IN
        /\ response' = Some(resp)
        /\ IF r.ok
           THEN /\ credentials' = r.val
                /\ heap' = [heap EXCEPT !["SsoCredentials"] = "live"]
                /\ log' = Append(log, <<"info", "Obtained SSO credentials, printing to standard output:">>)
                /\ Continue("print")
           ELSE /\ UNCHANGED <<credentials, heap>>
                /\ log' = Append(log, <<"error", "Unable to fetch SSO credentials using cached SSO token">> \o r.err)
                /\ FetchFailed(r.err)
    /\ UNCHANGED <<profile_name, profiles, sso_profile, cache, cached_sso_token, expires_at,
                   encoded, now, stdout, exit>>

\* main: one println!; after the fourth, main falls through to Ok(()).
Println ==
    /\ pc = "print"
    /\ LET lines == OutputLines(Unwrap(encoded), Unwrap(credentials))
           n == Len(stdout) + 1
       IN /\ stdout' = Append(stdout, lines[n])
          /\ IF n = Len(lines) THEN Leave("Ok", <<>>, "Emitted") ELSE Continue("print")
    /\ UNCHANGED <<profile_name, profiles, sso_profile, cache, cached_sso_token, expires_at,
                   encoded, now, requests, response, credentials, log, exit, heap>>

\* main returns (or unwinds): its locals go out of scope, and the runtime
\* turns the returned value into the exit status.
Return ==
    /\ pc = "return"
    /\ pc' = "done"
    /\ heap' = [o \in Objects |-> Drop(heap[o])]
    /\ exit' = Some(ExitCode(result))
    /\ UNCHANGED <<profile_name, profiles, sso_profile, cache, cached_sso_token, expires_at,
                   encoded, now, requests, response, credentials, stdout, log, outcome,
                   result, error>>

Next ==
    \/ ResolveProfile
    \/ LoadToken
    \/ ParseExpiry
    \/ CheckExpiry
    \/ FetchCredentials
    \/ Println
    \/ Return

Spec == Init /\ [][Next]_vars

\* ----------------------------------------------------------------- claims

Done == pc = "done"

\* The branches on which the run stops without credentials and without error.
AbsentOutcomes == {"AbsentDir", "AbsentFile"}
MalformedOutcomes == {"Unreadable", "Malformed"}
NotReadyOutcomes == AbsentOutcomes \cup MalformedOutcomes \cup {"Expired"}
HardFailures == {"ProfileLoadError", "ProfileNotFound", "IncompleteProfile", "FetchError"}

\* C1 (as claimed): a token whose expires_at equals the clock reading is
\* treated as expired (the run stops as Expired, sends no request, prints
\* nothing), and a request is sent only when the clock is strictly before
\* expires_at.
C1_TieIsExpired ==
    /\ (Done /\ IsSome(now) /\ Unwrap(now).utc = Unwrap(expires_at).utc)
          => (outcome = "Expired" /\ requests = <<>> /\ stdout = <<>>)
    /\ requests # <<>> => Unwrap(now).utc < Unwrap(expires_at).utc

\* C2: at termination standard output holds nothing, or exactly the comment
\* line and the three export lines, in order, with the values of the response.
C2_AllOrNothing ==
    Done =>
        \/ stdout = <<>>
        \/ /\ IsSome(response)
           /\ IsSome(Unwrap(response).role_credentials)
           /\ LET rc == Unwrap(Unwrap(response).role_credentials) IN
              /\ Len(stdout) = 4
              /\ stdout[1][1] = "# expires at " /\ stdout[1][2] \in TimestampStrings
              /\ stdout[2] = <<"export AWS_ACCESS_KEY_ID=">> \o rc.access_key_id
              /\ stdout[3] = <<"export AWS_SECRET_ACCESS_KEY=">> \o rc.secret_access_key
              /\ stdout[4] = <<"export AWS_SESSION_TOKEN=">> \o rc.session_token

\* C2 witness: a run that ended having printed its four lines.
C2_Witness == Done /\ Len(stdout) = 4 /\ outcome = "Emitted"

\* C3 (as claimed): the exit status is 0 exactly when the run ended Emitted,
\* absent, malformed or expired, and non-zero on every hard failure.
C3_ExitStatusOriginal ==
    Done =>
        /\ (Unwrap(exit) = 0) <=> (outcome \in {"Emitted"} \cup NotReadyOutcomes)
        /\ outcome \in HardFailures => Unwrap(exit) # 0

\* C3 (amended): the exit status is 0 exactly when the run ended Emitted,
\* absent, malformed, expired or with a token whose expires_at does not
\* parse, and non-zero on every hard failure (which leaves an error).
C3_ExitStatus ==
    Done =>
        /\ (Unwrap(exit) = 0) <=> (outcome \in {"Emitted", "BadTimestamp"} \cup NotReadyOutcomes)
        /\ outcome \in HardFailures => (Unwrap(exit) # 0 /\ error # <<>>)

\* C3 witness: a run that ended successfully on a token whose expires_at does
\* not parse.
C3_Witness ==
    Done /\ outcome = "BadTimestamp" /\ exit = Some(0)
         /\ Unwrap(cached_sso_token).expires_at = <<"not-a-date">>

\* C4 (as claimed): at termination every secret value constructed during the
\* run has been overwritten before its memory was released.
C4_Scrubbed == Done => \A o \in Objects : heap[o] \in {"none", "zeroized"}

Diagnostics(o) ==
    CASE o = "AbsentDir" -> {"SSO credentials cache directory does not exist"}
      [] o = "AbsentFile" -> {"Cache file for profile does not exist"}
      [] o \in MalformedOutcomes -> {"Unable to deserialize cached SSO token"}
      [] o = "Expired" -> {"Cached SSO token is expired as of"}

\* C6 (as claimed): every run that stops absent, malformed (an unreadable file
\* included) or expired has logged a record describing that outcome.
C6_Diagnosed ==
    (Done /\ outcome \in NotReadyOutcomes)
        => \E i \in DOMAIN log : log[i][2] \in Diagnostics(outcome)

\* The properties the looked-up profile lacks, as positions of Attrs.
MissingAttrs(profile) == {i \in 1..Len(Attrs) : profile[Attrs[i]] = None}
Least(S) == CHOOSE i \in S : \A j \in S : i <= j

\* C7: once the profile set is loaded, a name it does not define fails with
\* not-found carrying the name; a profile lacking properties fails naming the
\* first one lacking; a complete profile yields an SsoProfile equal, field by
\* field, to the looked-up values and the requested name.
C7_ProfileResolution ==
    (IsSome(profiles) /\ Unwrap(profiles).loaded) =>
        LET looked == Unwrap(profiles).get[profile_name] IN
        IF looked = None
        THEN sso_profile = None /\ result = "Err" /\ error = <<"profile not found", profile_name>>
        ELSE IF MissingAttrs(Unwrap(looked)) # {}
        THEN /\ sso_profile = None /\ result = "Err"
             /\ error = <<"profile must have property set", Attrs[Least(MissingAttrs(Unwrap(looked)))]>>
        ELSE /\ IsSome(sso_profile)
             /\ \A a \in AttrSet : Unwrap(sso_profile)[a] = Unwrap(Unwrap(looked)[a])
             /\ Unwrap(sso_profile).profile_name = profile_name
             /\ outcome \notin {"ProfileLoadError", "ProfileNotFound", "IncompleteProfile"}

\* C7 witness: a profile lacking sso_region and sso_role_name was refused
\* naming sso_region.
C7_Witness ==
    /\ Done /\ IsSome(profiles) /\ IsSome(Unwrap(profiles).get[profile_name])
    /\ MissingAttrs(Unwrap(Unwrap(profiles).get[profile_name])) = {3, 4}
    /\ error = <<"profile must have property set", "sso_region">>

\* The fields an answered request lacks, in the order they are checked.
ResponseFields == <<"credentials", "access key id", "secret access key", "session token">>
MissingFields(resp) ==
    IF resp.role_credentials = None THEN {1}
    ELSE LET rc == Unwrap(resp.role_credentials) IN
         {i \in 2..4 : <<0, rc.access_key_id, rc.secret_access_key, rc.session_token>>[i] = None}

\* C8: an answered request lacking the credentials object or one of the three
\* secrets makes the fetch fail naming the (first) lacking field; no
\* SsoCredentials is built, the run fails and nothing is ever printed.
C8_MissingField ==
    (IsSome(response) /\ Unwrap(response).ok /\ MissingFields(Unwrap(response)) # {}) =>
        /\ error = <<"response did not contain", ResponseFields[Least(MissingFields(Unwrap(response)))]>>
        /\ credentials = None
        /\ heap["SsoCredentials"] = "none"
        /\ result = "Err"
        /\ stdout = <<>>
        /\ Done => Unwrap(exit) # 0

\* C8 witness: a response lacking only the secret access key ended the run
\* with the error naming it.
C8_Witness ==
    /\ Done /\ IsSome(response) /\ Unwrap(response).ok
    /\ MissingFields(Unwrap(response)) = {3}
    /\ error = <<"response did not contain", "secret access key">>
    /\ stdout = <<>>

\* C9: a token that deserialized but whose expires_at is no RFC3339 timestamp
\* ends the run with no request, no output, no record after "Loaded cached SSO
\* token." and exit status 0.
C9_BadTimestampDropped ==
    (IsSome(cached_sso_token) /\ Unwrap(cached_sso_token).expires_at \notin TimestampStrings) =>
        /\ requests = <<>>
        /\ stdout = <<>>
        /\ log = << <<"debug", "Found SSO profile">>, <<"debug", "Loaded cached SSO token.">> >>
        /\ pc \in {"parse", "return", "done"}
        /\ Done => (exit = Some(0) /\ error = <<>>)

\* C9 witness: such a run, ended.
C9_Witness ==
    /\ Done /\ IsSome(cached_sso_token)
    /\ Unwrap(cached_sso_token).expires_at = <<"not-a-date">>
    /\ exit = Some(0) /\ Len(log) = 2

\* The RFC3339 text of the instant and offset a timestamp string denotes.
Reencoded(s) ==
    <<s[1], CASE s[2] \in {"Z", "+00:00"} -> "Z" [] OTHER -> s[2]>>

\* C10: the comment line shows the cached token's expires_at, re-encoded as
\* RFC3339; it is a function of the token alone, whatever expiration the
\* response carried.
C10_CommentLineFromToken ==
    stdout # <<>> =>
        stdout[1] = <<"# expires at ", Reencoded(Unwrap(cached_sso_token).expires_at)>>

\* C10 witness: a finished run whose credentials expire at another instant
\* than the token, and whose token wrote its offset as "+00:00".
C10_Witness ==
    /\ Done /\ Len(stdout) = 4
    /\ Unwrap(credentials).expires_at.utc # Unwrap(expires_at).utc
    /\ Unwrap(cached_sso_token).expires_at[2] = "+00:00"
    /\ stdout[1][2][2] = "Z"

====
